---- MODULE Spec2Model ----
(***************************************************************************)
(* The loan ledger of the library app: the four tables Books, Friends,     *)
(* Loans and Contacts, and the write functions of Write.py that mutate     *)
(* them, each inside one `with engine.begin()` transaction.  Read.py's     *)
(* queries are operators over the tables, and the home page of Home.py is  *)
(* its four session flags and the forms shown under them.                  *)
(***************************************************************************)
EXTENDS Integers, Sequences, FiniteSets, TLC

\* ---------------------------------------------------------------- bounds
MaxBooks == 2
MaxFriends == 2
MaxLoanRows == 2
MaxContactRows == 2
MaxCap == 2
MaxDebt == 1
MaxDay == 2

\* ------------------------------------------------------- program constants
\* create_book's default for is_in_stock, the value its only caller passes.
DefaultIsInStock == 1
\* The number of statements in the transactions of create_loan_entry,
\* return_book and delete_friend.
NStatements == 3

\* The value of Loans.Returned in an inserted row: no statement of Write.py
\* names the column, which Read.py's queries compare with 0.
DefaultReturned == 0

\* SQL's NULL in the date column ReturnReminder: no date, equal to no date.
NULL == -1
ISBNs == 1..MaxBooks
FriendIDs == 1..MaxFriends
Dates == 0..MaxDay
\* A contact form row: blank or filled type and value.
ContactInputs == [type : {"", "email"}, contact : {"", "a@b"}]
FilledContact == [type |-> "email", contact |-> "a@b"]
BlankContact == [type |-> "", contact |-> ""]
\* The keys of st.session_state that show the quick-action forms.
FormKeys == {"show_add_book", "show_add_friend", "show_create_loan", "show_return_book"}

VARIABLES
    Books,     \* ISBN -> IsInStock (0 or 1), on the ISBNs that have a row
    Friends,   \* FriendID -> MaxLoans, on the FriendIDs that have a row
    Loans,     \* set of rows [LoanID, ISBN, FriendID, DueDate, ReturnReminder,
               \* Returned]
    Contacts,  \* set of rows [ContactID, FriendID, type, contact]
    today,     \* date('now')
    op,        \* the Write function called last
    ret,       \* what it returned
    session_state  \* the home page's st.session_state: form key -> flag

vars == <<Books, Friends, Loans, Contacts, today, op, ret, session_state>>

\* The stored state as one value, as a transaction sees it.
DB == [Books |-> Books, Friends |-> Friends, Loans |-> Loans, Contacts |-> Contacts]

Max(S) == CHOOSE x \in S : \A y \in S : y <= x

\* The rowid SQLite gives an inserted row: one more than the largest in use.
NextRowId(ids) == IF ids = {} THEN 1 ELSE Max(ids) + 1

LoanIds(db) == {r.LoanID : r \in db.Loans}
ContactIds(db) == {r.ContactID : r \in db.Contacts}
FriendIds(db) == DOMAIN db.Friends

\* ------------------------------------------------------------ statements
\* INSERT INTO Books (...) VALUES (...)
InsertBook(db, isbn, is_in_stock) ==
    [db EXCEPT !.Books = [i \in DOMAIN db.Books \cup {isbn} |->
                             IF i = isbn THEN is_in_stock ELSE db.Books[i]]]

\* Books.ISBN is the table's unique key: a second row with the ISBN is refused.
BooksKeyViolated(db, isbn) == isbn \in DOMAIN db.Books

\* DELETE FROM Books WHERE ISBN = :isbn
DeleteBookRow(db, isbn) ==
    [db EXCEPT !.Books = [i \in DOMAIN db.Books \ {isbn} |-> db.Books[i]]]

\* INSERT INTO Loans (BorrowDate, DueDate, ReturnReminder, ISBN, FriendID)
InsertLoan(db, due_date, return_reminder, isbn, friend_id) ==
    [db EXCEPT !.Loans = @ \cup {[LoanID |-> NextRowId(LoanIds(db)),
                                  ISBN |-> isbn,
                                  FriendID |-> friend_id,
                                  DueDate |-> due_date,
                                  ReturnReminder |-> return_reminder,
                                  Returned |-> DefaultReturned]}]

\* UPDATE Books SET IsInStock = :v WHERE ISBN = :isbn
UpdateBookStatus(db, isbn, v) ==
    [db EXCEPT !.Books = [i \in DOMAIN db.Books |->
                             IF i = isbn THEN v ELSE db.Books[i]]]

\* UPDATE Friends SET MaxLoans = (MaxLoans + :delta) WHERE FriendID = :friend_id
UpdateFriendLoans(db, friend_id, delta) ==
    [db EXCEPT !.Friends = [f \in DOMAIN db.Friends |->
                               IF f = friend_id THEN db.Friends[f] + delta
                               ELSE db.Friends[f]]]

\* DELETE FROM Loans WHERE ISBN = :isbn AND FriendID = :friend_id
DeleteLoan(db, isbn, friend_id) ==
    [db EXCEPT !.Loans = {r \in @ : ~(r.ISBN = isbn /\ r.FriendID = friend_id)}]

\* INSERT INTO Friends (FName, LName, MaxLoans) VALUES (...)
InsertFriend(db, max_loans) ==
    LET friend_id == NextRowId(FriendIds(db))
    IN [db EXCEPT !.Friends = [f \in DOMAIN db.Friends \cup {friend_id} |->
                                  IF f = friend_id THEN max_loans ELSE db.Friends[f]]]

\* INSERT INTO Contacts (FriendID, type, contact) VALUES (...)
InsertContact(db, friend_id, type, contact) ==
    [db EXCEPT !.Contacts = @ \cup {[ContactID |-> NextRowId(ContactIds(db)),
                                     FriendID |-> friend_id,
                                     type |-> type,
                                     contact |-> contact]}]

\* UPDATE Friends SET ..., MaxLoans = :max_loans WHERE FriendID = :friend_id
SetFriendMaxLoans(db, friend_id, max_loans) ==
    [db EXCEPT !.Friends = [f \in DOMAIN db.Friends |->
                               IF f = friend_id THEN max_loans ELSE db.Friends[f]]]

\* DELETE FROM Contacts WHERE ContactID = :contact_id
DeleteContactRow(db, contact_id) ==
    [db EXCEPT !.Contacts = {r \in @ : r.ContactID # contact_id}]

\* DELETE FROM Contacts WHERE FriendID = :friend_id
DeleteContactsOf(db, friend_id) ==
    [db EXCEPT !.Contacts = {r \in @ : r.FriendID # friend_id}]

\* DELETE FROM Loans WHERE FriendID = :friend_id
DeleteLoansOf(db, friend_id) ==
    [db EXCEPT !.Loans = {r \in @ : r.FriendID # friend_id}]

\* DELETE FROM Friends WHERE FriendID = :friend_id
DeleteFriendRow(db, friend_id) ==
    [db EXCEPT !.Friends = [f \in DOMAIN db.Friends \ {friend_id} |-> db.Friends[f]]]

\* The UPDATE without its WHERE clause: every Loan loses its reminder date.
ClearReminderAll(db, loan_id) ==
    [db EXCEPT !.Loans = {[r EXCEPT !.ReturnReminder = NULL] : r \in @}]

\* UPDATE Loans SET ReturnReminder = NULL WHERE LoanID = :loan_id
ClearReminderRow(db, loan_id) ==
    [db EXCEPT !.Loans = {IF r.LoanID = loan_id
                          THEN [r EXCEPT !.ReturnReminder = NULL]
                          ELSE r : r \in @}]

\* ---------------------------------------------------------- transactions
\* `with engine.begin() as conn:` left normally: the writes are committed and
\* the function returns True.
Commit(after) == [db |-> after, ret |-> TRUE]

\* A transaction that keeps the writes made before the failing statement.
NoRollback(before, partial) == [db |-> partial, ret |-> FALSE]

\* `with engine.begin()` left by an exception: the writes made so far
\* (partial) are rolled back, and the except branch returns False.
Rollback(before, partial) == [db |-> before, ret |-> FALSE]

\* A transaction of up to three statements whose states are s[1] (before),
\* s[2], ... and whose statement number fail raises (0: none does).
Transact(s, fail) ==
    IF fail = 0 THEN Commit(s[Len(s)]) ELSE Rollback(s[1], s[fail])

create_book(db, isbn, is_in_stock, fail) ==
    IF BooksKeyViolated(db, isbn)
    THEN Rollback(db, db)
    ELSE Transact(<<db, InsertBook(db, isbn, is_in_stock)>>, fail)

delete_book(db, isbn, fail) ==
    Transact(<<db, DeleteBookRow(db, isbn)>>, fail)

create_loan_entry(db, due_date, return_reminder, isbn, friend_id, fail) ==
    LET s1 == InsertLoan(db, due_date, return_reminder, isbn, friend_id)
        s2 == UpdateBookStatus(s1, isbn, 0)
        s3 == UpdateFriendLoans(s2, friend_id, -1)
    IN Transact(<<db, s1, s2, s3>>, fail)

return_book(db, isbn, friend_id, fail) ==
    LET s1 == DeleteLoan(db, isbn, friend_id)
        s2 == UpdateBookStatus(s1, isbn, 1)
        s3 == UpdateFriendLoans(s2, friend_id, 1)
    IN Transact(<<db, s1, s2, s3>>, fail)

\* valid_contacts: the contacts whose type and value are both non-blank.
valid_contacts(contacts) ==
    SelectSeq(contacts, LAMBDA c : c.type # "" /\ c.contact # "")

RECURSIVE InsertContacts(_, _, _)
InsertContacts(db, friend_id, contacts) ==
    IF contacts = <<>> THEN db
    ELSE InsertContacts(InsertContact(db, friend_id, Head(contacts).type,
                                      Head(contacts).contact),
                        friend_id, Tail(contacts))

add_friend_with_contacts(db, max_loans, contacts, fail) ==
    LET s1 == InsertFriend(db, max_loans)
        friend_id == NextRowId(FriendIds(db))
        s2 == InsertContacts(s1, friend_id, valid_contacts(contacts))
    IN Transact(<<db, s1, s2>>, fail)

update_friend(db, friend_id, max_loans, fail) ==
    Transact(<<db, SetFriendMaxLoans(db, friend_id, max_loans)>>, fail)

add_contact_to_friend(db, friend_id, contact_type, contact_info, fail) ==
    Transact(<<db, InsertContact(db, friend_id, contact_type, contact_info)>>, fail)

delete_contact(db, contact_id, fail) ==
    Transact(<<db, DeleteContactRow(db, contact_id)>>, fail)

\* delete_friend without its DELETE FROM Loans.
delete_friend_keeping_loans(db, friend_id, fail) ==
    LET s1 == DeleteContactsOf(db, friend_id)
        s3 == DeleteFriendRow(s1, friend_id)
    IN Transact(<<db, s1, s1, s3>>, fail)

delete_friend(db, friend_id, fail) ==
    LET s1 == DeleteContactsOf(db, friend_id)
        s2 == DeleteLoansOf(s1, friend_id)
        s3 == DeleteFriendRow(s2, friend_id)
    IN Transact(<<db, s1, s2, s3>>, fail)

clear_reminder(db, loan_id, fail) ==
    Transact(<<db, ClearReminderRow(db, loan_id)>>, fail)

\* ---------------------------------------------------------------- queries
\* get_books: the ISBNs of the rows of Books with IsInStock = 1.
get_books(db) == {i \in DOMAIN db.Books : db.Books[i] = 1}

\* A check that finds no book: the form then always calls create_book.
book_exists_never(db, isbn) == FALSE

\* book_exists: whether a row of Books has the ISBN.
book_exists(db, isbn) == isbn \in DOMAIN db.Books

\* get_friends: the FriendIDs of the rows of Friends.
get_friends(db) == DOMAIN db.Friends

\* list_loans: Loans JOIN Books JOIN Friends.
list_loans(db) ==
    {r \in db.Loans : r.ISBN \in DOMAIN db.Books /\ r.FriendID \in DOMAIN db.Friends}

\* get_daily_reminders: Loans JOIN Friends JOIN Books JOIN Contacts
\* WHERE date(ReturnReminder) = date('now'), as <<loan row, contact row>>.
get_daily_reminders(db, now) ==
    {<<l, c>> \in db.Loans \X db.Contacts :
        /\ l.FriendID \in DOMAIN db.Friends
        /\ l.ISBN \in DOMAIN db.Books
        /\ c.FriendID = l.FriendID
        /\ l.ReturnReminder = now}

\* The groups of reminders_df.groupby(['LoanID', 'FriendID', ..., 'DueDate']),
\* one reminder card each: the distinct key tuples of the rows.
reminder_cards(rows) ==
    {[LoanID |-> x[1].LoanID, FriendID |-> x[1].FriendID, DueDate |-> x[1].DueDate] :
        x \in rows}

\* The orders in which a SELECT without ORDER BY may return its rows: SQL
\* leaves the order to the engine, so each enumeration of the rows is one.
RowOrders(rows) ==
    {s \in [1..Cardinality(rows) -> rows] :
        \A i, j \in 1..Cardinality(rows) : s[i] = s[j] => i = j}

\* get_loan_overdues: Loans JOIN Books JOIN Friends
\* WHERE DueDate < date('now') AND Returned = 0.
get_loan_overdues(db, now) ==
    {r \in db.Loans :
        /\ r.ISBN \in DOMAIN db.Books
        /\ r.FriendID \in DOMAIN db.Friends
        /\ r.DueDate < now
        /\ r.Returned = 0}

\* count_overdue_books: SELECT COUNT(*) FROM Loans
\* WHERE DueDate < date('now') AND Returned = 0.
count_overdue_books(db, now) ==
    Cardinality({r \in db.Loans : r.DueDate < now /\ r.Returned = 0})

\* get_friend_max_loans: the MaxLoans of the friend's row as a set of one
\* value, or the empty set for Python's None (no friend_id, no row).
get_friend_max_loans(db, friend_id) ==
    IF friend_id = 0 \/ friend_id \notin DOMAIN db.Friends
    THEN {}
    ELSE {db.Friends[friend_id]}

\* conn.execute(query).rowcount of a SELECT: the DBAPI defines rowcount for
\* UPDATE and DELETE only; SQLite's driver gives -1 for a SELECT, another
\* driver may give the number of rows.
SelectRowcount(rows) == {-1, Cardinality(rows)}

\* can_borrow_more: the answers the function can give, current_loans <
\* max_loans, or False when get_friend_max_loans gives None.
can_borrow_more(db, friend_id) ==
    LET max_loans == get_friend_max_loans(db, friend_id)
        rows == {r \in db.Loans : r.FriendID = friend_id /\ r.Returned = 0}
    IN IF max_loans = {}
       THEN {FALSE}
       ELSE {current_loans < m : current_loans \in SelectRowcount(rows), m \in max_loans}

\* set_active_expander without its loop: the other flags keep their values.
set_active_expander_keeping(state, form_name) ==
    [state EXCEPT ![form_name] = TRUE]

\* set_active_expander: every flag to False, then form_name's to True.
set_active_expander(state, form_name) ==
    [[key \in DOMAIN state |-> FALSE] EXCEPT ![form_name] = TRUE]

\* ---------------------------------------------------------------- actions
\* The bounds of the model: row ids and the MaxLoans counter stay in range.
InBounds(db) ==
    /\ \A r \in db.Loans : r.LoanID <= MaxLoanRows
    /\ \A r \in db.Contacts : r.ContactID <= MaxContactRows
    /\ DOMAIN db.Friends \subseteq FriendIDs
    /\ \A f \in DOMAIN db.Friends : db.Friends[f] \in -MaxDebt..MaxCap

\* One call of a Write function with result res.
Call(name, res) ==
    /\ InBounds(res.db)
    /\ op' = name
    /\ ret' = res.ret
    /\ Books' = res.db.Books
    /\ Friends' = res.db.Friends
    /\ Loans' = res.db.Loans
    /\ Contacts' = res.db.Contacts
    /\ UNCHANGED <<today, session_state>>

Init ==
    /\ Books = <<>>
    /\ Friends = <<>>
    /\ Loans = {}
    /\ Contacts = {}
    /\ today = 0
    /\ op = "init"
    /\ ret = TRUE
    /\ session_state = [key \in FormKeys |-> FALSE]

Tick ==
    /\ today < MaxDay
    /\ today' = today + 1
    /\ op' = "tick"
    /\ UNCHANGED <<Books, Friends, Loans, Contacts, ret, session_state>>

CreateBook(isbn, fail) ==
    Call("create_book", create_book(DB, isbn, DefaultIsInStock, fail))

\* The Add Book form: create_book unless book_exists.
AddBookForm(isbn, fail) ==
    /\ ~book_exists(DB, isbn)
    /\ CreateBook(isbn, fail)

DeleteBook(isbn, fail) ==
    Call("delete_book", delete_book(DB, isbn, fail))

CreateLoanEntry(due_date, return_reminder, isbn, friend_id, fail) ==
    Call("create_loan_entry",
         create_loan_entry(DB, due_date, return_reminder, isbn, friend_id, fail))

\* The Create Loan form: a friend of get_friends, a book of get_books.
CreateLoanForm(due_date, return_reminder, isbn, friend_id, fail) ==
    /\ friend_id \in get_friends(DB)
    /\ isbn \in get_books(DB)
    /\ CreateLoanEntry(due_date, return_reminder, isbn, friend_id, fail)

ReturnBook(isbn, friend_id, fail) ==
    Call("return_book", return_book(DB, isbn, friend_id, fail))

\* The Return Book form: a row of list_loans.
ReturnBookForm(fail) ==
    \E r \in list_loans(DB) : ReturnBook(r.ISBN, r.FriendID, fail)

AddFriendWithContacts(max_loans, contacts, fail) ==
    Call("add_friend_with_contacts",
         add_friend_with_contacts(DB, max_loans, contacts, fail))

UpdateFriend(friend_id, max_loans, fail) ==
    Call("update_friend", update_friend(DB, friend_id, max_loans, fail))

AddContactToFriend(friend_id, c, fail) ==
    Call("add_contact_to_friend",
         add_contact_to_friend(DB, friend_id, c.type, c.contact, fail))

DeleteContact(contact_id, fail) ==
    Call("delete_contact", delete_contact(DB, contact_id, fail))

DeleteFriend(friend_id, fail) ==
    Call("delete_friend", delete_friend(DB, friend_id, fail))

ClearReminder(loan_id, fail) ==
    Call("clear_reminder", clear_reminder(DB, loan_id, fail))

\* A click on a quick-action button: on_click = set_active_expander.
SetActiveExpander(form_name) ==
    /\ session_state' = set_active_expander(session_state, form_name)
    /\ UNCHANGED <<Books, Friends, Loans, Contacts, today, op, ret>>

\* The expanders of the home page: each form is shown under its flag.
CreateLoanExpander(due_date, return_reminder, isbn, friend_id, fail) ==
    /\ session_state["show_create_loan"]
    /\ CreateLoanForm(due_date, return_reminder, isbn, friend_id, fail)

ReturnBookExpander(fail) ==
    /\ session_state["show_return_book"]
    /\ ReturnBookForm(fail)

AddBookExpander(isbn, fail) ==
    /\ session_state["show_add_book"]
    /\ AddBookForm(isbn, fail)

\* Every call passes the keys of stored rows, as the pages do, which take them
\* from get_friends, get_books and list_loans; an ISBN to add is any ISBN.
BookKeys == DOMAIN Books
FriendKeys == DOMAIN Friends
Capacities == 1..MaxCap

\* The ledger: the Write functions that insert, update or delete rows of
\* Books, Friends and Loans, with loans dated today and friends added
\* without contacts.
Next ==
    \/ \E isbn \in ISBNs, fail \in 0..1 : CreateBook(isbn, fail)
    \/ \E isbn \in BookKeys, fail \in 0..1 : DeleteBook(isbn, fail)
    \/ \E isbn \in BookKeys, f \in FriendKeys, fail \in 0..NStatements :
          CreateLoanEntry(today, today, isbn, f, fail)
    \/ \E isbn \in BookKeys, f \in FriendKeys, fail \in 0..NStatements :
          CreateLoanForm(today, today, isbn, f, fail)
    \/ \E isbn \in BookKeys, f \in FriendKeys, fail \in 0..NStatements :
          ReturnBook(isbn, f, fail)
    \/ \E fail \in 0..NStatements : ReturnBookForm(fail)
    \/ \E m \in Capacities, fail \in 0..2 : AddFriendWithContacts(m, <<>>, fail)
    \/ \E f \in FriendKeys, m \in Capacities, fail \in 0..1 : UpdateFriend(f, m, fail)
    \/ \E f \in FriendKeys, fail \in 0..NStatements : DeleteFriend(f, fail)

Spec == Init /\ [][Next]_vars

\* The pages' flows alone: books are added by the Add Book form, loans are
\* made by the Create Loan form and returned by the Return Book form.
NextHome ==
    \/ \E isbn \in ISBNs, fail \in 0..1 : AddBookForm(isbn, fail)
    \/ \E m \in Capacities, fail \in 0..2 : AddFriendWithContacts(m, <<>>, fail)
    \/ \E isbn \in BookKeys, f \in FriendKeys, fail \in 0..NStatements :
          CreateLoanForm(today, today, isbn, f, fail)
    \/ \E fail \in 0..NStatements : ReturnBookForm(fail)

SpecHome == Init /\ [][NextHome]_vars

\* The friends and their contacts: friends are added with a contact form row,
\* contacts are added and deleted, one book is lent, and friends are deleted.
NextFriends ==
    \/ \E fail \in 0..1 : CreateBook(1, fail)
    \/ \E m \in Capacities, c \in ContactInputs, fail \in 0..2 :
          AddFriendWithContacts(m, <<c>>, fail)
    \/ \E f \in FriendKeys, fail \in 0..1 :
          AddContactToFriend(f, FilledContact, fail)
    \/ \E id \in ContactIds(DB), fail \in 0..1 : DeleteContact(id, fail)
    \/ \E isbn \in BookKeys, f \in FriendKeys, fail \in 0..NStatements :
          CreateLoanEntry(today, today, isbn, f, fail)
    \/ \E f \in FriendKeys, fail \in 0..NStatements : DeleteFriend(f, fail)

SpecFriends == Init /\ [][NextFriends]_vars

\* The reminders: the days pass, loans of one book are made with any reminder
\* date, returned, cleared of their reminder and deleted with their friend.
\* These are the Write functions that touch a row of Loans.
NextReminders ==
    \/ Tick
    \/ \E fail \in 0..1 : CreateBook(1, fail)
    \/ \E fail \in 0..2 : AddFriendWithContacts(MaxCap, <<FilledContact>>, fail)
    \/ \E r \in Dates, isbn \in BookKeys, f \in FriendKeys, fail \in 0..NStatements :
          CreateLoanEntry(today, r, isbn, f, fail)
    \/ \E isbn \in BookKeys, f \in FriendKeys, fail \in 0..NStatements :
          ReturnBook(isbn, f, fail)
    \/ \E f \in FriendKeys, fail \in 0..NStatements : DeleteFriend(f, fail)
    \/ \E id \in LoanIds(DB), fail \in 0..1 : ClearReminder(id, fail)

SpecReminders == Init /\ [][NextReminders]_vars

\* The reminder scan: friends with and without contacts borrow one book by
\* the forms with any reminder date, and the book may be deleted.
NextScan ==
    \/ \E fail \in 0..1 : AddBookForm(1, fail)
    \/ \E isbn \in BookKeys, fail \in 0..1 : DeleteBook(isbn, fail)
    \/ \E c \in {FilledContact, BlankContact}, fail \in 0..2 :
          AddFriendWithContacts(MaxCap, <<c>>, fail)
    \/ \E f \in FriendKeys, fail \in 0..1 :
          AddContactToFriend(f, FilledContact, fail)
    \/ \E r \in Dates, isbn \in BookKeys, f \in FriendKeys, fail \in 0..NStatements :
          CreateLoanForm(MaxDay, r, isbn, f, fail)
    \/ \E fail \in 0..NStatements : ReturnBookForm(fail)

SpecScan == Init /\ [][NextScan]_vars

\* The due dates: the days pass while the forms make loans with any due date
\* and return them.
NextDue ==
    \/ Tick
    \/ \E isbn \in ISBNs, fail \in 0..1 : AddBookForm(isbn, fail)
    \/ \E fail \in 0..2 : AddFriendWithContacts(MaxCap, <<>>, fail)
    \/ \E d \in Dates, isbn \in BookKeys, f \in FriendKeys, fail \in 0..NStatements :
          CreateLoanForm(d, d, isbn, f, fail)
    \/ \E fail \in 0..NStatements : ReturnBookForm(fail)

SpecDue == Init /\ [][NextDue]_vars

\* The books: create_book is called directly and by the Add Book form, books
\* are lent by the forms and deleted.
NextBooks ==
    \/ \E isbn \in ISBNs, fail \in 0..1 : CreateBook(isbn, fail)
    \/ \E isbn \in ISBNs, fail \in 0..1 : AddBookForm(isbn, fail)
    \/ \E isbn \in BookKeys, fail \in 0..1 : DeleteBook(isbn, fail)
    \/ \E fail \in 0..2 : AddFriendWithContacts(MaxCap, <<>>, fail)
    \/ \E isbn \in BookKeys, f \in FriendKeys, fail \in 0..NStatements :
          CreateLoanForm(today, today, isbn, f, fail)
    \/ \E fail \in 0..NStatements : ReturnBookForm(fail)

SpecBooks == Init /\ [][NextBooks]_vars

\* Borrow and Return by the forms for friends of capacity MaxCap, which no
\* update_friend changes.
NextCapacity ==
    \/ \E isbn \in ISBNs, fail \in 0..1 : AddBookForm(isbn, fail)
    \/ \E fail \in 0..2 : AddFriendWithContacts(MaxCap, <<>>, fail)
    \/ \E isbn \in BookKeys, f \in FriendKeys, fail \in 0..NStatements :
          CreateLoanForm(today, today, isbn, f, fail)
    \/ \E fail \in 0..NStatements : ReturnBookForm(fail)

SpecCapacity == Init /\ [][NextCapacity]_vars

\* The home page: the quick-action buttons and the forms under their flags;
\* friends are added on the Friends page.
NextPage ==
    \/ \E form_name \in FormKeys : SetActiveExpander(form_name)
    \/ \E isbn \in ISBNs, fail \in 0..1 : AddBookExpander(isbn, fail)
    \/ \E m \in Capacities, fail \in 0..2 : AddFriendWithContacts(m, <<>>, fail)
    \/ \E isbn \in BookKeys, f \in FriendKeys, fail \in 0..NStatements :
          CreateLoanExpander(today, today, isbn, f, fail)
    \/ \E fail \in 0..NStatements : ReturnBookExpander(fail)

SpecPage == Init /\ [][NextPage]_vars

\* ------------------------------------------------------------------ claims
OpenLoansOf(isbn) == {r \in Loans : r.ISBN = isbn}
OpenLoansOfFriend(f) == {r \in Loans : r.FriendID = f}
Stored == <<Books, Friends, Loans, Contacts>>

\* C1: for every Book, IsInStock is false if and only if an open Loan row
\* references the Book's ISBN.
C1_InStockIffOpenLoan ==
    \A isbn \in DOMAIN Books : (Books[isbn] = 0) <=> (OpenLoansOf(isbn) # {})

\* C2: no Friend's remaining capacity (the MaxLoans counter, which each Borrow
\* decrements) is ever negative.
C2_CapacityNeverNegative ==
    \A f \in DOMAIN Friends : Friends[f] >= 0

\* C3: a Borrow for an ISBN whose Book is on loan (IsInStock = 0 and an open
\* Loan exists) returns failure and changes no row.
C3_BorrowOnLoanRejected ==
    [][\A isbn \in BookKeys, f \in FriendKeys, fail \in 0..NStatements :
          (/\ Books[isbn] = 0
           /\ OpenLoansOf(isbn) # {}
           /\ CreateLoanEntry(today, today, isbn, f, fail))
          => (ret' = FALSE /\ UNCHANGED Stored)]_vars

\* C4: a Borrow for a Friend who has no capacity left (the counter is 0 and
\* the Friend holds open Loans) returns failure and changes no row.
C4_BorrowAtCapacityRejected ==
    [][\A isbn \in BookKeys, f \in FriendKeys, fail \in 0..NStatements :
          (/\ Friends[f] = 0
           /\ OpenLoansOfFriend(f) # {}
           /\ CreateLoanEntry(today, today, isbn, f, fail))
          => (ret' = FALSE /\ UNCHANGED Stored)]_vars

\* The three writes of a Borrow of isbn by f, all applied.
BorrowApplied(isbn, f) ==
    /\ \E r \in Loans' \ Loans :
          r.ISBN = isbn /\ r.FriendID = f /\ Loans' = Loans \cup {r}
    /\ DOMAIN Books' = DOMAIN Books
    /\ \A i \in DOMAIN Books : Books'[i] = IF i = isbn THEN 0 ELSE Books[i]
    /\ DOMAIN Friends' = DOMAIN Friends
    /\ \A x \in DOMAIN Friends : Friends'[x] = IF x = f THEN Friends[x] - 1 ELSE Friends[x]
    /\ Contacts' = Contacts

\* The three writes of a Return of isbn by f, all applied.
ReturnApplied(isbn, f) ==
    /\ Loans' = {r \in Loans : r.ISBN # isbn \/ r.FriendID # f}
    /\ DOMAIN Books' = DOMAIN Books
    /\ \A i \in DOMAIN Books : Books'[i] = IF i = isbn THEN 1 ELSE Books[i]
    /\ DOMAIN Friends' = DOMAIN Friends
    /\ \A x \in DOMAIN Friends : Friends'[x] = IF x = f THEN Friends[x] + 1 ELSE Friends[x]
    /\ Contacts' = Contacts

\* C5: a Borrow or a Return either returns failure and leaves the stored state
\* as it was, or returns success with its three writes all applied; no step
\* leaves only some of them.
C5_AllOrNothing ==
    [][/\ op' = "create_loan_entry" =>
            \/ ret' = FALSE /\ UNCHANGED Stored
            \/ ret' = TRUE /\ \E isbn \in BookKeys, f \in FriendKeys : BorrowApplied(isbn, f)
       /\ op' = "return_book" =>
            \/ ret' = FALSE /\ UNCHANGED Stored
            \/ ret' = TRUE /\ \E isbn \in BookKeys, f \in FriendKeys : ReturnApplied(isbn, f)
      ]_vars

\* A Borrow failed and was rolled back while an earlier Loan, with its Book
\* out of stock and its Friend's counter decremented, is stored.
C5_Witness ==
    /\ op = "create_loan_entry"
    /\ ret = FALSE
    /\ \E r \in Loans :
          /\ r.ISBN \in DOMAIN Books /\ Books[r.ISBN] = 0
          /\ r.FriendID \in DOMAIN Friends /\ Friends[r.FriendID] = MaxCap - 1

\* C6: wherever Borrow(isbn, friend) succeeds for a stored Book and Friend,
\* Borrow then Return(isbn, friend) leaves the Book in stock, the Friend's
\* counter at its value before the Borrow and the Loans as they were.
C6_RoundTrip ==
    \A isbn \in DOMAIN Books, f \in DOMAIN Friends :
        LET b == create_loan_entry(DB, today, today, isbn, f, 0)
            r == return_book(b.db, isbn, f, 0)
        IN (b.ret = TRUE /\ r.ret = TRUE) =>
              /\ r.db.Books[isbn] = 1
              /\ r.db.Friends[f] = Friends[f]
              /\ r.db.Loans = Loans

\* C7: a Return for a pair (isbn, friend) with no open Loan returns a
\* non-success outcome and changes no row.
C7_ReturnWithoutLoanIsNoOp ==
    [][\A isbn \in BookKeys, f \in FriendKeys, fail \in 0..NStatements :
          (/\ ~ \E r \in Loans : r.ISBN = isbn /\ r.FriendID = f
           /\ ReturnBook(isbn, f, fail))
          => (ret' = FALSE /\ UNCHANGED Stored)]_vars

\* C8: at most one open Loan per ISBN.
C8_OneOpenLoanPerISBN ==
    \A isbn \in ISBNs : Cardinality(OpenLoansOf(isbn)) <= 1

\* No Contact and no Loan references a FriendID without a row in Friends.
NoDanglingFriend ==
    /\ \A r \in Loans : r.FriendID \in DOMAIN Friends
    /\ \A c \in Contacts : c.FriendID \in DOMAIN Friends

\* C9: a committed delete_friend(f) removes the row of f and exactly the
\* Contacts and Loans of f, leaving every other row of the three tables as it
\* was; one that fails changes nothing; and afterwards no Contact or Loan
\* references a Friend that does not exist.
C9_DeleteFriendCascade ==
    [][\A f \in FriendKeys :
          /\ DeleteFriend(f, 0) =>
                /\ ret' = TRUE
                /\ DOMAIN Friends' = DOMAIN Friends \ {f}
                /\ \A x \in DOMAIN Friends' : Friends'[x] = Friends[x]
                /\ Loans' = {r \in Loans : r.FriendID # f}
                /\ Contacts' = {c \in Contacts : c.FriendID # f}
                /\ NoDanglingFriend'
          /\ \A fail \in 1..NStatements :
                DeleteFriend(f, fail) => (ret' = FALSE /\ UNCHANGED Stored)]_vars

\* Friend 1 was deleted with its Loan 1 and its Contact 1, while Friend 2 keeps
\* a Loan and a Contact.
C9_Witness ==
    /\ op = "delete_friend"
    /\ ret = TRUE
    /\ DOMAIN Friends = {2}
    /\ LoanIds(DB) = {2}
    /\ ContactIds(DB) = {2}
    /\ \A r \in Loans : r.FriendID = 2
    /\ \A c \in Contacts : c.FriendID = 2

\* C10: a committed clear_reminder(id) leaves the Loan id without a reminder
\* date and every other Loan as it was; calling it again changes nothing; the
\* Loan is in no daily-reminder scan of any day; and a Loan without a
\* reminder date never gets one back.
C10_ClearReminder ==
    [][/\ \A id \in LoanIds(DB) :
             ClearReminder(id, 0) =>
                /\ \A r \in Loans' : r.LoanID = id => r.ReturnReminder = NULL
                /\ {r \in Loans' : r.LoanID # id} = {r \in Loans : r.LoanID # id}
                /\ LoanIds(DB') = LoanIds(DB)
                /\ clear_reminder(DB', id, 0).db = DB'
                /\ \A d \in Dates : \A x \in get_daily_reminders(DB', d) :
                      x[1].LoanID # id
       /\ \A r \in Loans : r.ReturnReminder = NULL =>
             \A q \in Loans' : q.LoanID = r.LoanID => q.ReturnReminder = NULL
      ]_vars

\* A reminder was cleared: the Loan has no reminder date and is in no scan,
\* while another Loan's reminder is due today and is in today's scan.
C10_Witness ==
    /\ op = "clear_reminder"
    /\ ret = TRUE
    /\ \E r \in Loans, q \in Loans :
          /\ r.ReturnReminder = NULL
          /\ q.ReturnReminder = today
          /\ \E x \in get_daily_reminders(DB, today) : x[1] = q
          /\ ~ \E x \in get_daily_reminders(DB, today) : x[1] = r

\* C11: today's reminder scan has exactly one row for each pair of a Loan
\* whose reminder date is today and a Contact of the Loan's Friend (a Loan
\* with N contacts has N rows, a Loan with another or no reminder date has
\* none), and grouping the rows gives exactly one card for each such Loan
\* that has a Contact.
C11_DailyReminders ==
    LET due == {l \in Loans : l.ReturnReminder = today}
        rows == get_daily_reminders(DB, today)
        cards == reminder_cards(rows)
    IN /\ rows = {<<l, c>> \in due \X Contacts : c.FriendID = l.FriendID}
       /\ \A l \in due :
             (\E c \in Contacts : c.FriendID = l.FriendID) =>
                Cardinality({k \in cards : k.LoanID = l.LoanID}) = 1
       /\ \A k \in cards : \E l \in due : l.LoanID = k.LoanID

\* The rows of s are in ascending order of DueDate.
AscendingByDueDate(s) ==
    \A i, j \in 1..Len(s) : i < j => s[i].DueDate <= s[j].DueDate

\* C12: the overdue query returns exactly the open Loans whose DueDate is
\* before today (a Loan due today is not overdue, a returned Loan has no row
\* left to appear), count_overdue_books counts them, and the rows come in
\* ascending order of DueDate.
C12_Overdue ==
    LET overdue == {r \in Loans : r.DueDate < today}
    IN /\ get_loan_overdues(DB, today) = overdue
       /\ count_overdue_books(DB, today) = Cardinality(overdue)
       /\ \A s \in RowOrders(get_loan_overdues(DB, today)) : AscendingByDueDate(s)

\* C13: a delete_book for a Book that an open Loan references returns failure
\* and leaves Books and Loans as they were, so that every open Loan's ISBN
\* has a row in Books.
C13_DeleteBookOnLoanRejected ==
    [][/\ \A isbn \in BookKeys, fail \in 0..1 :
             (OpenLoansOf(isbn) # {} /\ DeleteBook(isbn, fail))
             => (ret' = FALSE /\ UNCHANGED <<Books, Loans>>)
       /\ \A r \in Loans' : r.ISBN \in DOMAIN Books'
      ]_vars

C15_CanBorrowMore ==
    \A f \in FriendIDs : \A answer \in can_borrow_more(DB, f) :
        IF f \in DOMAIN Friends
        THEN answer = (MaxCap - Cardinality(OpenLoansOfFriend(f)) > 0)
        ELSE answer = FALSE

\* C16: while a Loan is stored (after its Borrow, until its Return), its Book
\* is not among the available books of get_books and the Loan is a row of
\* list_loans, whose rows come in ascending order of DueDate.
C16_BorrowedBookListed ==
    /\ \A r \in Loans : r.ISBN \notin get_books(DB) /\ r \in list_loans(DB)
    /\ \A s \in RowOrders(list_loans(DB)) : AscendingByDueDate(s)

\* The stored MaxLoans counter of f plus the number of f's open Loans.
CapacityHeld(f) == Friends[f] + Cardinality(OpenLoansOfFriend(f))

\* C17: no create_loan_entry and no return_book changes, for any Friend, the
\* sum of the stored MaxLoans counter and the number of the Friend's open
\* Loans (a Borrow moves one unit from the counter to the Loans, a Return one
\* back); and no other function than these two, add_friend_with_contacts and
\* update_friend changes the counter of a Friend.
C17_CapacityConservation ==
    [][/\ op' \in {"create_loan_entry", "return_book"} =>
             \A f \in DOMAIN Friends :
                /\ f \in DOMAIN Friends'
                /\ CapacityHeld(f)' = CapacityHeld(f)
       /\ op' \notin {"create_loan_entry", "return_book", "update_friend",
                       "add_friend_with_contacts"} =>
             \A f \in DOMAIN Friends \cap DOMAIN Friends' : Friends'[f] = Friends[f]
      ]_vars

\* C18: the four quick-action flags start False, at most one of them is True
\* in any state, and a click on a quick-action button leaves the clicked
\* form's flag True and the other three False.
C18_OneFormFlag ==
    /\ \A key \in FormKeys : session_state[key] = FALSE
    /\ [][/\ Cardinality({key \in FormKeys : session_state'[key]}) <= 1
          /\ \A form_name \in FormKeys :
                SetActiveExpander(form_name) =>
                   \A key \in FormKeys : session_state'[key] = (key = form_name)
         ]_vars

\* The Return Book form is the one shown, after the Create Loan form was
\* shown and made the Loan that is stored.
C18_Witness ==
    /\ Loans # {}
    /\ \A key \in FormKeys : session_state[key] = (key = "show_return_book")

====
